---- MODULE Spec2Model ----
(***************************************************************************)
(* A model of the esl client (github.com/vma/esl): the frame decoder       *)
(* NewEventFromReader, the connection set-up (NewConnection, ConnectRetry, *)
(* Authenticate), the read loop HandleEvents, the synchronous requests     *)
(* (SendRecv, SendEvent, Api, BgApi, Command.Execute) and Close.           *)
(*                                                                         *)
(* Strings are sequences of one-character strings, so that                 *)
(* strings.Contains and strings.HasPrefix are computed, not assumed.       *)
(***************************************************************************)
EXTENDS Integers, Sequences, FiniteSets, TLC

\* ------------------------------------------------------------------ bounds
\* Largest retry budget handed to ConnectRetry when it is called directly.
MaxBudget == 4
\* Frames the read loop decodes in one run.
MaxFrames == 3
\* Synchronous requests issued in one run.
MaxReq == 2
\* OnEvent goroutines that use the connection while others still run.
MaxHandlers == 1

\* The retry budget NewConnection passes to ConnectRetry.
RetryBudget == 3

\* The goroutines that call into the connection: 0 is the OnConnect
\* goroutine, the others are OnEvent goroutines.
Handlers == 1..MaxHandlers
Tasks == {0} \cup Handlers

\* ----------------------------------------------------------------- strings
OkPlain == <<"+", "O", "K">>
OkEscaped == <<"%", "2", "B", "O", "K">>
ErrMarker == <<"-", "E", "R", "R">>

\* strings.Contains(s, sub)
Contains(s, sub) ==
    \E i \in 0..(Len(s) - Len(sub)) :
        \A j \in 1..Len(sub) : s[i + j] = sub[j]

\* strings.HasPrefix(s, p)
HasPrefix(s, p) ==
    /\ Len(s) >= Len(p)
    /\ \A j \in 1..Len(p) : s[j] = p[j]

\* Reply-Text values a peer sends: "+OK", "%2BOK", "-ERR" and "-ERR +OK".
ReplyTexts ==
    { OkPlain, OkEscaped, ErrMarker, ErrMarker \o <<" ">> \o OkPlain }

\* Raw bodies of api/response frames: "+OK\n", "-ERR\n" and " -ERR".
ApiBodies ==
    { OkPlain \o <<"\n">>, ErrMarker \o <<"\n">>, <<" ">> \o ErrMarker }

\* ------------------------------------------------------------- event types
EventError == 0
EventState == 1
EventConnect == 2
EventAuth == 3
EventCommandReply == 4
EventApiResponse == 5
EventDisconnect == 6
EventGeneric == 7

\* The classification's name, as the handshake record keeps it.
TypeName(type) ==
    CASE type = EventAuth -> "Auth-Request"
      [] type = EventCommandReply -> "Command-Reply"
      [] type = EventApiResponse -> "Api-Response"
      [] type = EventDisconnect -> "Disconnect"
      [] type = EventGeneric -> "Generic-Notification"
      [] OTHER -> "Error"

\* ------------------------------------------------------------------ frames
\* What the next read of the stream meets.  hdr is the outcome of
\* ReadMIMEHeader ("ok", "bad": malformed block, "eof": stream ended,
\* "ioerr": transport error), clen the Content-Length header ("none", "ok",
\* "nan": not a number, "short": stream ends inside the body), nested the
\* header block carried in the body of a text/event-plain frame, and rid the
\* request the peer sent this frame in answer to (0: none).
NoNested == [ok |-> FALSE, stamp |-> "absent"]

Plain(ct) ==
    [hdr |-> "ok", clen |-> "none", ct |-> ct, reply |-> <<>>, body |-> <<>>,
     nested |-> NoNested, rid |-> 0]

EofIn == [Plain("") EXCEPT !.hdr = "eof"]
IoErrIn == [Plain("") EXCEPT !.hdr = "ioerr"]

ReplyFrames(rid) ==
    { [Plain("command/reply") EXCEPT !.reply = r, !.rid = rid] : r \in ReplyTexts }

ApiFrames(rid) ==
    { [Plain("api/response") EXCEPT !.clen = "ok", !.body = b, !.rid = rid] :
        b \in ApiBodies }

EventFrames ==
    { [Plain("text/event-plain") EXCEPT !.clen = "ok", !.nested = n] :
        n \in { [ok |-> TRUE, stamp |-> "num"], [ok |-> TRUE, stamp |-> "absent"],
                [ok |-> FALSE, stamp |-> "absent"] } }

OtherFrames ==
    { Plain(ct) : ct \in { "auth/request", "text/event-json", "text/event-xml",
                           "text/disconnect-notice", "text/rude-rejection",
                           "text/unknown", "" } }

BrokenFrames ==
    { [Plain("text/event-plain") EXCEPT !.hdr = "bad"],
      [Plain("api/response") EXCEPT !.clen = "nan"],
      [Plain("api/response") EXCEPT !.clen = "short"] }

\* ----------------------------------------------------------------- decoder
\* The result of NewEventFromReader: nil tells that the returned *Event is
\* nil, err is "nil" or the failure, the other fields are the event's.
Decoded(isNil, err, type, f) ==
    [nil |-> isNil, err |-> err, type |-> type, reply |-> f.reply,
     body |-> f.body, rid |-> f.rid]

\* Event.parseTextBody: the nested header block and the integer timestamp.
parseTextBody(f) ==
    IF f.clen # "ok" \/ ~f.nested.ok THEN "parse text body"
    ELSE IF f.nested.stamp # "num" THEN "atoi"
    ELSE "nil"

\* NewEventFromReader with text/rude-rejection missing from the case of line
\* 230.
NewEventFromReaderNoRude(f) ==
    IF f.hdr = "eof" THEN Decoded(TRUE, "EOF", EventError, f)
    ELSE IF f.hdr # "ok" THEN Decoded(TRUE, "parse headers", EventError, f)
    ELSE IF f.clen = "nan" THEN Decoded(TRUE, "convert content-length", EventError, f)
    ELSE IF f.clen = "short" THEN Decoded(TRUE, "read body", EventError, f)
    ELSE CASE f.ct = "auth/request" -> Decoded(FALSE, "nil", EventAuth, f)
           [] f.ct = "command/reply" ->
                IF ~Contains(f.reply, OkPlain) /\ ~Contains(f.reply, OkEscaped)
                THEN Decoded(TRUE, "command error", EventError, f)
                ELSE Decoded(FALSE, "nil", EventCommandReply, f)
           [] f.ct = "text/event-plain" ->
                Decoded(FALSE, parseTextBody(f), EventGeneric, f)
           [] f.ct \in {"text/event-json", "text/event-xml"} ->
                Decoded(FALSE, "unsupported format", EventError, f)
           [] f.ct = "text/disconnect-notice" ->
                Decoded(FALSE, "nil", EventDisconnect, f)
           [] f.ct = "api/response" -> Decoded(FALSE, "nil", EventApiResponse, f)
           [] OTHER -> Decoded(FALSE, "nil", EventError, f)

NewEventFromReader(f) ==
    IF f.hdr = "eof" THEN Decoded(TRUE, "EOF", EventError, f)
    ELSE IF f.hdr # "ok" THEN Decoded(TRUE, "parse headers", EventError, f)
    ELSE IF f.clen = "nan" THEN Decoded(TRUE, "convert content-length", EventError, f)
    ELSE IF f.clen = "short" THEN Decoded(TRUE, "read body", EventError, f)
    ELSE CASE f.ct = "auth/request" -> Decoded(FALSE, "nil", EventAuth, f)
           [] f.ct = "command/reply" ->
                IF ~Contains(f.reply, OkPlain) /\ ~Contains(f.reply, OkEscaped)
                THEN Decoded(TRUE, "command error", EventError, f)
                ELSE Decoded(FALSE, "nil", EventCommandReply, f)
           [] f.ct = "text/event-plain" ->
                Decoded(FALSE, parseTextBody(f), EventGeneric, f)
           [] f.ct \in {"text/event-json", "text/event-xml"} ->
                Decoded(FALSE, "unsupported format", EventError, f)
           [] f.ct \in {"text/disconnect-notice", "text/rude-rejection"} ->
                Decoded(FALSE, "nil", EventDisconnect, f)
           [] f.ct = "api/response" -> Decoded(FALSE, "nil", EventApiResponse, f)
           [] OTHER -> Decoded(FALSE, "nil", EventError, f)

\* ------------------------------------------------------------------- state
VARIABLES
    phase,       \* where connection set-up stands
    MaxRetries,  \* ConnectRetry's parameter
    retries,     \* ConnectRetry's loop variable
    dials,       \* net.DialTimeout calls made so far
    setupErr,    \* the error set-up returned ("nil": none)
    hs,          \* what Authenticate has done so far, in order
    sock,        \* con.socket: "nil", "open" or "closed" (released)
    peer,        \* the remote end: "up", "eof" (it closed), "reset"
    werr,        \* the buffered writer's sticky error
    Connected,   \* con.Connected
    discipline,  \* whether callers and peer keep the single-flight discipline
    onConnect,   \* the OnConnect goroutine: times launched, whether it runs
    onClose,     \* calls of Handler.OnClose
    onEvent,     \* OnEvent goroutines launched
    onDisconnect,\* calls of Handler.OnDisconnect
    loopPc,      \* where HandleEvents stands
    loopEv,      \* the event HandleEvents holds
    loopRet,     \* what HandleEvents returned: "none", "nil" or "err"
    exit,        \* why HandleEvents left its loop: the cause, con.Connected
                 \* then, the last frame's Reply-Text, the request it answered
                 \* and whether its timestamp failed to convert
    frames,      \* frames HandleEvents has decoded
    pc,          \* per task: "off", "run", "wait", "closeHook", "closeSock", "ret"
    op,          \* per task: the call it is in, or made last
    req,         \* per task: the id of the request it issued
    got,         \* per task: the event its call received
    res,         \* per task: what its call returned
    pend,        \* per frame kind: the requests the peer has yet to answer
    nextId,      \* the id of the next request
    decode,      \* a frame handed to NewEventFromReader, and what it returned
    serial       \* a Command handed to Serialize, and the bytes it returned

setupVars == <<phase, MaxRetries, retries, dials, setupErr, hs, sock, peer, werr, Connected>>
hookVars == <<onConnect, onClose, onEvent, onDisconnect>>
loopVars == <<loopPc, loopEv, loopRet, exit, frames>>
taskVars == <<pc, op, req, got, res, nextId>>
pureVars == <<decode, serial>>
runVars == <<discipline, pureVars, hookVars, loopVars, taskVars, pend>>
vars == <<setupVars, runVars>>

\* What a read of the buffered stream can return now; replies are the reply
\* frames the peer may have sent.  A read blocks (the set is empty) while the
\* stream is open and idle.  Frames read before a local close may still sit
\* in the 16 KiB read buffer, so a closed socket yields them or the error.
StreamNext(replies) ==
    (IF peer = "up" THEN replies \cup EventFrames \cup OtherFrames \cup BrokenFrames ELSE {})
    \cup (IF peer = "eof" /\ sock = "open" THEN {EofIn} ELSE {})
    \cup (IF peer = "reset" \/ sock = "closed" THEN {IoErrIn} ELSE {})

\* Connection.Write: the buffered Write followed by the deferred Flush, whose
\* error is dropped.  big: the bytes exceed the writer's buffer, so Write
\* itself goes to the socket.  err is what Write returns, sent whether the
\* bytes reached the peer, werr the writer's sticky error afterwards.
Write(big) ==
    IF werr THEN [err |-> TRUE, sent |-> FALSE, werr |-> TRUE]
    ELSE IF sock = "open" /\ peer # "reset"
         THEN [err |-> FALSE, sent |-> (peer = "up"), werr |-> FALSE]
         ELSE [err |-> big, sent |-> FALSE, werr |-> TRUE]

\* ----------------------------------------------------------------- set-up
\* One turn of ConnectRetry's loop, or leaving it to build the buffers and
\* call Authenticate.
ConnectRetryLoop ==
    /\ phase = "dial"
    /\ IF ~Connected /\ retries <= MaxRetries
       THEN \E dialed \in BOOLEAN :
               /\ dials' = dials + 1
               /\ IF dialed
                  THEN /\ sock' = "open"
                       /\ phase' = "auth1"
                       /\ UNCHANGED <<retries, setupErr>>
                  ELSE IF retries = MaxRetries
                       THEN /\ phase' = "failed"
                            /\ setupErr' = "last dial attempt"
                            /\ UNCHANGED <<retries, sock>>
                       ELSE /\ retries' = retries + 1
                            /\ UNCHANGED <<phase, setupErr, sock>>
       ELSE /\ phase' = "auth1"
            /\ UNCHANGED <<retries, dials, setupErr, sock>>
    /\ werr' = FALSE
    /\ UNCHANGED <<MaxRetries, hs, peer, Connected, runVars>>

\* Authenticate's first frame must be the auth request.
AuthPreambleOk(d) == d.err = "nil" /\ d.type = EventAuth

\* Authenticate, lines 173-180: read the preamble.  A nil socket, or a nil
\* event dereferenced by ev.Type, panics.
AuthenticatePreamble ==
    /\ phase = "auth1"
    /\ IF sock = "nil"
       THEN /\ phase' = "panic"
            /\ UNCHANGED <<hs, sock, setupErr, peer>>
       ELSE \E f \in StreamNext(ReplyFrames(0) \cup ApiFrames(0)) :
            LET d == NewEventFromReader(f) IN
            /\ peer' = IF f.clen = "short" THEN "eof" ELSE peer
            /\ IF AuthPreambleOk(d)
               THEN /\ phase' = "authWrite"
                    /\ hs' = Append(hs, TypeName(d.type))
                    /\ UNCHANGED <<sock, setupErr>>
               ELSE /\ sock' = "closed"
                    /\ hs' = hs
                    /\ IF d.nil
                       THEN /\ phase' = "panic"
                            /\ setupErr' = setupErr
                       ELSE /\ phase' = "failed"
                            /\ setupErr' = IF d.type # EventAuth
                                           THEN "bad auth preamble"
                                           ELSE "socket read error"
    /\ UNCHANGED <<MaxRetries, retries, dials, werr, Connected, runVars>>

\* Authenticate, lines 182-187: write "auth <password>".
AuthenticateWrite ==
    /\ phase = "authWrite"
    /\ \E big \in BOOLEAN :
        LET w == Write(big) IN
        /\ werr' = w.werr
        /\ hs' = Append(hs, "auth")
        /\ IF w.err
           THEN /\ sock' = "closed"
                /\ phase' = "failed"
                /\ setupErr' = "passwd buffer flush"
           ELSE /\ phase' = "auth2"
                /\ UNCHANGED <<sock, setupErr>>
    /\ UNCHANGED <<MaxRetries, retries, dials, peer, Connected, runVars>>

\* AuthReplyOk without the check of line 194.
AuthReplyAnyType(d) == TRUE

\* Authenticate's second frame must be a command reply.
AuthReplyOk(d) == d.type = EventCommandReply

\* Authenticate, lines 189-199: read the reply and mark the connection.
AuthenticateReply ==
    /\ phase = "auth2"
    /\ \E f \in StreamNext(ReplyFrames(0) \cup ApiFrames(0)) :
        LET d == NewEventFromReader(f) IN
        /\ peer' = IF f.clen = "short" THEN "eof" ELSE peer
        /\ IF d.err # "nil"
           THEN /\ sock' = "closed"
                /\ phase' = "failed"
                /\ setupErr' = "auth reply"
                /\ UNCHANGED <<hs, Connected>>
           ELSE IF ~AuthReplyOk(d)
           THEN /\ sock' = "closed"
                /\ phase' = "failed"
                /\ setupErr' = "bad reply type"
                /\ UNCHANGED <<hs, Connected>>
           ELSE /\ Connected' = TRUE
                /\ phase' = "connected"
                /\ hs' = Append(hs, TypeName(d.type))
                /\ UNCHANGED <<sock, setupErr>>
    /\ UNCHANGED <<MaxRetries, retries, dials, werr, runVars>>

\* The remote end closes the stream, or the transport breaks.
PeerClose ==
    /\ sock = "open"
    /\ peer = "up"
    /\ peer' \in {"eof", "reset"}
    /\ UNCHANGED <<phase, MaxRetries, retries, dials, setupErr, hs, sock, werr, Connected, runVars>>

\* -------------------------------------------------------------- the hooks
\* LaunchOnConnect without the early return of lines 49-51.
LaunchOnConnectAlways(err) == 1

\* NewConnection, lines 48-53: the OnConnect goroutine is launched when
\* ConnectRetry returned no error.
LaunchOnConnect(err) == IF err = "nil" THEN 1 ELSE 0

\* NewConnection returns: the connection (phase "ready") or the error.
NewConnectionReturn ==
    /\ phase \in {"connected", "failed"}
    /\ phase' = IF setupErr = "nil" THEN "ready" ELSE "refused"
    /\ onConnect' = [onConnect EXCEPT !.launched = @ + LaunchOnConnect(setupErr)]
    /\ MaxRetries' = 0
    /\ retries' = 0
    /\ dials' = 0
    /\ UNCHANGED <<setupErr, hs, sock, peer, werr, Connected, discipline, pureVars, onClose,
                   onEvent, onDisconnect, loopVars, taskVars, pend>>

\* The scheduler starts the launched OnConnect goroutine.
OnConnectStart ==
    /\ onConnect.launched > 0
    /\ ~onConnect.started
    /\ onConnect' = [onConnect EXCEPT !.started = TRUE]
    /\ pc' = [pc EXCEPT ![0] = "run"]
    /\ UNCHANGED <<setupVars, discipline, pureVars, onClose, onEvent, onDisconnect, loopVars,
                   op, req, got, res, nextId, pend>>

\* ---------------------------------------------------------------- requests
NoEvent == [type |-> EventError, reply |-> <<>>, body |-> <<>>, rid |-> 0]
EventOf(d) == [type |-> d.type, reply |-> d.reply, body |-> d.body, rid |-> d.rid]

Ops == {"SendRecv", "SendEvent", "Api", "BgApi", "Execute"}

\* Queue with BgApi receiving from con.apiResp, as Api does.
QueueBgApiOnApi(o) == IF o \in {"Api", "BgApi"} THEN "api" ELSE "cmd"

\* The correlation queue a call receives from: con.apiResp in Api,
\* con.cmdReply in SendRecv, SendEvent, Execute and (through SendRecv) BgApi.
Queue(o) == IF o = "Api" THEN "api" ELSE "cmd"

\* The frame kind the switch answers a request with: api/response to
\* "api ...", command/reply to every other command, "bgapi ..." included.
AnswerKind(o) == IF o = "Api" THEN "api" ELSE "cmd"

IsSpace(c) == c \in {" ", "\n", "\t", "\r"}

\* strings.TrimSpace
RECURSIVE TrimSpace(_)
TrimSpace(s) ==
    IF s = <<>> THEN s
    ELSE IF IsSpace(Head(s)) THEN TrimSpace(Tail(s))
    ELSE IF IsSpace(s[Len(s)]) THEN TrimSpace(SubSeq(s, 1, Len(s) - 1))
    ELSE s

\* ApiReturn testing the raw body for the marker, without trimming it first.
ApiReturnRaw(ev) ==
    IF HasPrefix(ev.body, ErrMarker)
    THEN [value |-> <<>>, err |-> TrimSpace(ev.body)]
    ELSE [value |-> ev.body, err |-> <<>>]

\* Api, lines 116-120: the string and the error text (<<>>: no error) Api
\* returns for the api/response it received.
ApiReturn(ev) ==
    LET resp == TrimSpace(ev.body) IN
    IF HasPrefix(resp, ErrMarker)
    THEN [value |-> <<>>, err |-> resp]
    ELSE [value |-> ev.body, err |-> <<>>]

\* What a call returns for the event it received.
Result(o, ev) ==
    CASE o \in {"SendRecv", "SendEvent", "BgApi"} ->
            IF HasPrefix(ev.reply, ErrMarker) THEN "fail" ELSE "ok"
      [] o = "Api" ->
            IF ApiReturn(ev).err # <<>> THEN "fail" ELSE "ok"
      [] OTHER -> "ok"

\* Task t runs and is in no call of the connection.
Free(t) == pc[t] \in {"run", "ret"}

\* The single-flight discipline: no request of the same queue is outstanding.
MayIssue(o) ==
    discipline => \A u \in Tasks : ~(pc[u] = "wait" /\ Queue(op[u]) = Queue(o))

\* SendRecv, SendEvent, Api, BgApi, Execute up to the receive: the request is
\* written and flushed; a write error returns at once, else the call blocks
\* on its queue.
Request(t) ==
    /\ phase = "ready"
    /\ Free(t)
    /\ nextId <= MaxReq
    /\ \E o \in Ops, big \in BOOLEAN :
        LET w == Write(big) IN
        /\ MayIssue(o)
        /\ op' = [op EXCEPT ![t] = o]
        /\ req' = [req EXCEPT ![t] = nextId]
        /\ got' = [got EXCEPT ![t] = NoEvent]
        /\ werr' = w.werr
        /\ pc' = [pc EXCEPT ![t] = IF w.err THEN "ret" ELSE "wait"]
        /\ res' = [res EXCEPT ![t] = IF w.err THEN "write error" ELSE "none"]
        /\ pend' = IF w.sent
                   THEN [pend EXCEPT ![AnswerKind(o)] = Append(@, nextId)]
                   ELSE pend
    /\ nextId' = nextId + 1
    /\ UNCHANGED <<phase, MaxRetries, retries, dials, setupErr, hs, sock, peer,
                   Connected, discipline, pureVars, hookVars, loopVars>>

\* ------------------------------------------------------------------- Close
\* Close, line 234, in a task: the flag is read.
CloseCall(t) ==
    /\ phase = "ready"
    /\ Free(t)
    /\ op' = [op EXCEPT ![t] = "Close"]
    /\ got' = [got EXCEPT ![t] = NoEvent]
    /\ res' = [res EXCEPT ![t] = "none"]
    /\ pc' = [pc EXCEPT ![t] = IF Connected THEN "closeHook" ELSE "closeSock"]
    /\ UNCHANGED <<setupVars, discipline, pureVars, hookVars, loopVars, req, nextId, pend>>

\* Close, lines 235-236: the flag is cleared and the close hook called.
CloseHook(t) ==
    /\ pc[t] = "closeHook"
    /\ Connected' = FALSE
    /\ onClose' = onClose + 1
    /\ pc' = [pc EXCEPT ![t] = "closeSock"]
    /\ UNCHANGED <<phase, MaxRetries, retries, dials, setupErr, hs, sock, peer, werr,
                   discipline, pureVars, onConnect, onEvent, onDisconnect, loopVars, op, req,
                   got, res, nextId, pend>>

\* CloseSocket also closing the correlation queues, which wakes every call
\* blocked on them with a nil event.
CloseSocketWaking(t) ==
    /\ pc[t] = "closeSock"
    /\ sock' = "closed"
    /\ pc' = [u \in Tasks |-> IF u = t \/ pc[u] = "wait" THEN "ret" ELSE pc[u]]
    /\ res' = [u \in Tasks |-> IF u = t THEN "closed"
                              ELSE IF pc[u] = "wait" THEN "fail" ELSE res[u]]
    /\ UNCHANGED <<phase, MaxRetries, retries, dials, setupErr, hs, peer, werr,
                   Connected, discipline, pureVars, hookVars, loopVars, op, req, got, nextId, pend>>

\* Close, line 238: the socket is released and Close returns.
CloseSocket(t) ==
    /\ pc[t] = "closeSock"
    /\ sock' = "closed"
    /\ pc' = [pc EXCEPT ![t] = "ret"]
    /\ res' = [res EXCEPT ![t] = "closed"]
    /\ UNCHANGED <<phase, MaxRetries, retries, dials, setupErr, hs, peer, werr,
                   Connected, discipline, pureVars, hookVars, loopVars, op, req, got, nextId, pend>>

\* ----------------------------------------------------------- the read loop
\* The application calls HandleEvents on the connection NewConnection gave.
HandleEventsCall ==
    /\ phase = "ready"
    /\ loopPc = "idle"
    /\ loopPc' = "top"
    /\ UNCHANGED <<setupVars, discipline, pureVars, hookVars, loopEv, loopRet, exit, frames,
                   taskVars, pend>>

\* HandleEvents has not left its loop.
NoExit ==
    [cause |-> "none", connected |-> FALSE, reply |-> <<>>, rid |-> 0,
     atoi |-> FALSE]

\* The record of HandleEvents leaving its loop on decoder result d; atoi
\* tells that d's error is that of strconv.Atoi in parseTextBody.
Exit(cause, d) ==
    [cause |-> cause, connected |-> Connected, reply |-> d.reply, rid |-> d.rid,
     atoi |-> (d.err = "atoi")]

\* HandleEvents, line 203 and line 225.
LoopTop ==
    /\ loopPc = "top"
    /\ IF Connected
       THEN /\ loopPc' = "read"
            /\ UNCHANGED <<loopRet, exit>>
       ELSE /\ loopPc' = "returned"
            /\ loopRet' = "err"
            /\ exit' = [NoExit EXCEPT !.cause = "disconnected"]
    /\ UNCHANGED <<setupVars, discipline, pureVars, hookVars, loopEv, frames, taskVars, pend>>

\* The reply frames that may come next: the answer to the oldest unanswered
\* request of each kind and, from a peer that keeps no discipline, replies
\* nobody asked for.
Replies ==
    (IF pend["cmd"] # <<>> THEN ReplyFrames(Head(pend["cmd"]))
     ELSE IF discipline THEN {} ELSE ReplyFrames(0))
    \cup
    (IF pend["api"] # <<>> THEN ApiFrames(Head(pend["api"]))
     ELSE IF discipline THEN {} ELSE ApiFrames(0))

\* The requests left unanswered once frame f has been sent.
Answered(f) ==
    IF f.rid = 0 THEN pend
    ELSE IF f.ct = "command/reply" THEN [pend EXCEPT !["cmd"] = Tail(@)]
    ELSE [pend EXCEPT !["api"] = Tail(@)]

\* RouteQueue with the channels of lines 218 and 220 exchanged.
RouteQueueSwapped(type) ==
    IF type = EventCommandReply THEN "api"
    ELSE IF type = EventApiResponse THEN "cmd"
    ELSE "none"

\* The queue HandleEvents hands an event of this type to ("none": no queue).
RouteQueue(type) ==
    IF type = EventCommandReply THEN "cmd"
    ELSE IF type = EventApiResponse THEN "api"
    ELSE "none"

\* 1 when the switch of lines 212-223 calls the hook of case `hook` for an
\* event of this type, else 0.
Dispatch(type, hook) == IF type = hook THEN 1 ELSE 0

\* AfterHook with OnEvent called in the loop's own goroutine (no `go`): the
\* loop waits in the handler.
AfterHookSync(type) == IF type = EventGeneric THEN "inHandler" ELSE "top"

\* AfterHook with the Disconnect case going on to Close the connection.
AfterHookClosing(type) == IF type = EventDisconnect THEN "closeCall" ELSE "top"

\* Where HandleEvents stands once the switch has served a Disconnect or a
\* notification: OnDisconnect has returned and OnEvent was launched with
\* `go`, so the loop is back at its condition whatever the handler does.
AfterHook(type) == "top"

\* HandleEvents, lines 204-223: one frame is decoded and routed.  A handler
\* launched for a notification either leaves the connection alone or is one
\* of the goroutines the model follows (h).
LoopRead ==
    /\ loopPc = "read"
    /\ \E f \in StreamNext(Replies) :
        LET d == NewEventFromReader(f) IN
        /\ f.hdr \in {"ok", "bad"} => frames < MaxFrames
        /\ frames' = IF f.hdr \in {"ok", "bad"} THEN frames + 1 ELSE frames
        /\ peer' = IF f.clen = "short" THEN "eof" ELSE peer
        /\ pend' = Answered(f)
        /\ IF d.err # "nil"
           THEN IF d.err = "EOF" \/ ~Connected
                THEN /\ loopPc' = "returned"
                     /\ loopRet' = "nil"
                     /\ exit' = Exit(IF d.err = "EOF" THEN "eof" ELSE "decode", d)
                     /\ UNCHANGED <<loopEv, onEvent, onDisconnect, pc>>
                ELSE /\ loopPc' = "closeCall"
                     /\ exit' = Exit("decode", d)
                     /\ UNCHANGED <<loopRet, loopEv, onEvent, onDisconnect, pc>>
           ELSE IF d.type = EventError
                THEN /\ loopPc' = "returned"
                     /\ loopRet' = "err"
                     /\ exit' = Exit("invalid", d)
                     /\ UNCHANGED <<loopEv, onEvent, onDisconnect, pc>>
                ELSE IF RouteQueue(d.type) # "none"
                THEN /\ loopPc' = "send"
                     /\ loopEv' = EventOf(d)
                     /\ UNCHANGED <<loopRet, exit, onEvent, onDisconnect, pc>>
                ELSE /\ loopPc' = AfterHook(d.type)
                     /\ onDisconnect' = onDisconnect + Dispatch(d.type, EventDisconnect)
                     /\ onEvent' = onEvent + Dispatch(d.type, EventGeneric)
                     /\ \E h \in Handlers \cup {0} :
                            pc' = IF d.type = EventGeneric /\ h # 0 /\ pc[h] = "off"
                                  THEN [pc EXCEPT ![h] = "run"]
                                  ELSE pc
                     /\ UNCHANGED <<loopRet, exit, loopEv>>
    /\ UNCHANGED <<phase, MaxRetries, retries, dials, setupErr, hs, sock, werr,
                   Connected, discipline, pureVars, onConnect, onClose, op, req, got, res,
                   nextId>>

\* Deliver with a send that does not block: the event goes to task t if it is
\* waiting on the queue and is dropped otherwise.
DeliverOrDrop(t) ==
    /\ loopPc = "send"
    /\ IF pc[t] = "wait" /\ Queue(op[t]) = RouteQueue(loopEv.type)
       THEN /\ got' = [got EXCEPT ![t] = loopEv]
            /\ res' = [res EXCEPT ![t] = Result(op[t], loopEv)]
            /\ pc' = [pc EXCEPT ![t] = "ret"]
       ELSE UNCHANGED <<got, res, pc>>
    /\ loopPc' = "top"
    /\ loopEv' = NoEvent
    /\ UNCHANGED <<setupVars, discipline, pureVars, hookVars, loopRet, exit, frames,
                   op, req, nextId, pend>>

\* The rendezvous of lines 218/220 with the receive of a blocked call: the
\* loop's event passes to task t, which inspects it and returns.
Deliver(t) ==
    /\ loopPc = "send"
    /\ pc[t] = "wait"
    /\ Queue(op[t]) = RouteQueue(loopEv.type)
    /\ got' = [got EXCEPT ![t] = loopEv]
    /\ res' = [res EXCEPT ![t] = Result(op[t], loopEv)]
    /\ pc' = [pc EXCEPT ![t] = "ret"]
    /\ loopPc' = "top"
    /\ loopEv' = NoEvent
    /\ UNCHANGED <<setupVars, discipline, pureVars, hookVars, loopRet, exit, frames, op, req,
                   nextId, pend>>

\* HandleEvents, line 209: Close, called on a decode failure.
LoopClose ==
    /\ loopPc \in {"closeCall", "closeHook", "closeSock"}
    /\ CASE loopPc = "closeCall" ->
              /\ loopPc' = IF Connected THEN "closeHook" ELSE "closeSock"
              /\ UNCHANGED <<Connected, onClose, sock, loopRet>>
         [] loopPc = "closeHook" ->
              /\ Connected' = FALSE
              /\ onClose' = onClose + 1
              /\ loopPc' = "closeSock"
              /\ UNCHANGED <<sock, loopRet>>
         [] OTHER ->
              /\ sock' = "closed"
              /\ loopPc' = "returned"
              /\ loopRet' = "err"
              /\ UNCHANGED <<Connected, onClose>>
    /\ UNCHANGED <<phase, MaxRetries, retries, dials, setupErr, hs, peer, werr,
                   discipline, pureVars, onConnect, onEvent, onDisconnect, loopEv, exit, frames,
                   taskVars, pend>>

\* ------------------------------------------------- the decoder, Serialize
\* Byte strings here are sequences of tokens: "\n", the fixed words Serialize
\* writes, and the characters of the Command's fields.
Newline == "\n"

\* Command.Serialize: three formatted writes and the closing "\n\n".
Serialize(cmd) ==
    <<"sendmsg ">> \o cmd.UId \o <<Newline, "call-command: ", "execute", Newline>>
    \o <<"execute-app-name: ">> \o cmd.App \o <<Newline>>
    \o <<"execute-app-arg: ">> \o cmd.Args \o <<Newline>>
    \o (IF cmd.Sync THEN <<"event-lock: ", "true", Newline>>
                    ELSE <<"event-lock: ", "false", Newline>>)
    \o <<Newline, Newline>>

\* The lines of a byte string, each ended by "\n" (the last one maybe not).
RECURSIVE Lines(_)
Lines(s) ==
    IF s = <<>> THEN <<>>
    ELSE LET i == CHOOSE k \in 1..(Len(s) + 1) :
                      /\ k = Len(s) + 1 \/ s[k] = Newline
                      /\ \A j \in 1..(k - 1) : s[j] # Newline
         IN IF i > Len(s) THEN <<s>>
            ELSE <<SubSeq(s, 1, i - 1)>> \o Lines(SubSeq(s, i + 1, Len(s)))

\* The peer's reading of a sendmsg frame: the lines up to the first blank
\* one, the target after "sendmsg " and, for each header, the value of the
\* first line that bears its name.
ParseCommand(bytes) ==
    LET all == Lines(bytes)
        end == IF \E i \in 1..Len(all) : all[i] = <<>>
               THEN CHOOSE i \in 1..Len(all) :
                        all[i] = <<>> /\ \A j \in 1..(i - 1) : all[j] # <<>>
               ELSE Len(all) + 1
        head == SubSeq(all, 1, end - 1)
        Has(name) == \E i \in 1..Len(head) : head[i][1] = name
        Value(name) ==
            IF Has(name)
            THEN Tail(head[CHOOSE i \in 1..Len(head) :
                               head[i][1] = name /\ \A j \in 1..(i - 1) : head[j][1] # name])
            ELSE <<>>
    IN [Sync |-> Value("event-lock: ") = <<"true">>,
        UId |-> Value("sendmsg "),
        App |-> Value("execute-app-name: "),
        Args |-> Value("execute-app-arg: ")]

\* The Command values Serialize is given: with and without lock, an empty
\* argument, a plain one, and one that holds a line break.
Commands ==
    [Sync : BOOLEAN, UId : {<<"u">>}, App : {<<"a">>, <<"a", "b">>},
     Args : {<<>>, <<"x">>, <<"x", Newline, "event-lock: ", "true">>}]

\* The frames NewEventFromReader is given: every Content-Type with and without
\* a body, with every Reply-Text and nested block, and the frames whose
\* header block or body cannot be read.
DecoderInputs ==
    { [Plain(ct) EXCEPT !.clen = c, !.reply = r, !.nested = n] :
        ct \in { f.ct : f \in OtherFrames } \cup
               {"command/reply", "api/response", "text/event-plain"},
        c \in {"none", "ok"},
        r \in ReplyTexts \cup {<<>>},
        n \in { f.nested : f \in EventFrames } }
    \cup BrokenFrames \cup {EofIn, IoErrIn}

\* No call of NewEventFromReader has returned.
Pending == Decoded(TRUE, "pending", EventError, Plain(""))

\* A call of NewEventFromReader returns.
DecodeCall ==
    /\ decode.out = Pending
    /\ decode' = [decode EXCEPT !.out = NewEventFromReader(decode.in)]
    /\ UNCHANGED <<serial, setupVars, discipline, hookVars, loopVars, taskVars, pend>>

\* A call of Serialize returns.
SerializeCall ==
    /\ ~serial.done
    /\ serial' = [serial EXCEPT !.out = Serialize(serial.in), !.done = TRUE]
    /\ UNCHANGED <<decode, setupVars, discipline, hookVars, loopVars, taskVars, pend>>

\* ---------------------------------------------------------- specifications
\* The connection's runs hand no frame and no Command to the two functions.
NoCalls ==
    /\ decode = [in |-> Plain(""), out |-> Pending]
    /\ serial = [in |-> [Sync |-> FALSE, UId |-> <<>>, App |-> <<>>, Args |-> <<>>],
                 out |-> <<>>, done |-> TRUE]

InitRun(d) ==
    /\ discipline = d
    /\ onConnect = [launched |-> 0, started |-> FALSE]
    /\ onClose = 0
    /\ onEvent = 0
    /\ onDisconnect = 0
    /\ loopPc = "idle"
    /\ loopEv = NoEvent
    /\ loopRet = "none"
    /\ exit = NoExit
    /\ frames = 0
    /\ pc = [t \in Tasks |-> "off"]
    /\ op = [t \in Tasks |-> "none"]
    /\ req = [t \in Tasks |-> 0]
    /\ got = [t \in Tasks |-> NoEvent]
    /\ res = [t \in Tasks |-> "none"]
    /\ pend = [k \in {"cmd", "api"} |-> <<>>]
    /\ nextId = 1

InitSetup(budgets) ==
    /\ phase = "dial"
    /\ MaxRetries \in budgets
    /\ retries = 1
    /\ dials = 0
    /\ setupErr = "nil"
    /\ hs = <<>>
    /\ sock = "nil"
    /\ peer = "up"
    /\ werr = FALSE
    /\ Connected = FALSE

NextSetup ==
    \/ ConnectRetryLoop
    \/ AuthenticatePreamble
    \/ AuthenticateWrite
    \/ AuthenticateReply
    \/ PeerClose

NextRun ==
    \/ NewConnectionReturn
    \/ OnConnectStart
    \/ HandleEventsCall
    \/ LoopTop
    \/ LoopRead
    \/ LoopClose
    \/ \E t \in Tasks : Request(t)
    \/ \E t \in Tasks : Deliver(t)
    \/ \E t \in Tasks : CloseCall(t)
    \/ \E t \in Tasks : CloseHook(t)
    \/ \E t \in Tasks : CloseSocket(t)

\* The program: NewConnection, then HandleEvents and the tasks.
Init == InitSetup({RetryBudget}) /\ InitRun(FALSE) /\ NoCalls
Next == NextSetup \/ NextRun
Spec == Init /\ [][Next]_vars

\* The program with callers and peer keeping the single-flight discipline.
InitSF == InitSetup({RetryBudget}) /\ InitRun(TRUE) /\ NoCalls
SpecSF == InitSF /\ [][Next]_vars

\* ConnectRetry called directly, with any budget.
InitRetry == InitSetup(0..MaxBudget) /\ InitRun(FALSE) /\ NoCalls
SpecRetry == InitRetry /\ [][NextSetup]_vars

\* NewEventFromReader and Serialize called on their own, on every input.
InitPure ==
    /\ InitSetup({RetryBudget}) /\ InitRun(FALSE)
    /\ decode \in [in : DecoderInputs, out : {Pending}]
    /\ serial \in [in : Commands, out : {<<>>}, done : {FALSE}]
NextPure == DecodeCall \/ SerializeCall
SpecPure == InitPure /\ [][NextPure]_vars

\* The program under the Go scheduler: a goroutine that can run does run.
\* HandleEvents and a Close that was called take their next step, and a
\* receive that meets a send completes.  Nothing obliges the application to
\* issue a request or the peer to close.
Scheduling ==
    /\ WF_vars(LoopTop)
    /\ WF_vars(LoopRead)
    /\ WF_vars(LoopClose)
    /\ \A t \in Tasks :
          WF_vars(Deliver(t)) /\ WF_vars(CloseHook(t)) /\ WF_vars(CloseSocket(t))

SpecLive == Init /\ [][Next]_vars /\ Scheduling

\* ------------------------------------------------------------------ claims
\* Task t's last call has returned with an event taken from its queue.
Answered1(t) == pc[t] = "ret" /\ res[t] \in {"ok", "fail"}

\* C1: however Close calls interleave on an authenticated connection, the
\* close hook OnClose is called exactly once in total, and once a Close call
\* has returned Connected is false and the socket is released.
C1_CloseHookOnce ==
    /\ onClose <= 1
    /\ \A t \in Tasks :
          (pc[t] = "ret" /\ op[t] = "Close") =>
              (~Connected /\ onClose = 1 /\ sock = "closed")

\* C2: once the read loop has consumed the Command-Reply that answers task
\* t's request with a failure marker in place of +OK and has left its loop,
\* t's call has returned a failure to its caller.
C2_FailureReturnedToCaller ==
    \A t \in Tasks :
        ( /\ loopPc = "returned"
          /\ exit.cause = "decode"
          /\ HasPrefix(exit.reply, ErrMarker)
          /\ exit.rid # 0
          /\ exit.rid = req[t]
          /\ Queue(op[t]) = "cmd" )
        => (pc[t] = "ret" /\ res[t] = "fail")

\* C3: under the single-flight discipline every synchronous call that
\* returns with an event returns the reply the peer sent to its own request:
\* the k-th reply of a kind goes to the caller of the k-th request of that kind.
C3_OwnReply ==
    \A t \in Tasks : Answered1(t) => got[t].rid = req[t]

\* C3's case: two tasks have each received the reply to their own request,
\* the second request's reply after the first's.
C3_Witness ==
    \E t, u \in Tasks :
        /\ Answered1(t) /\ req[t] = 1 /\ got[t].rid = 1
        /\ Answered1(u) /\ req[u] = 2 /\ got[u].rid = 2

\* C4 as stated: Api and BgApi block on the API queue and are completed only
\* by Api-Response frames, SendRecv, SendEvent and Execute block on the
\* command queue and are completed only by Command-Reply frames.
C4_BgApiOnApiQueue ==
    \A t \in Tasks :
        /\ (pc[t] = "wait" /\ op[t] \in {"Api", "BgApi"}) => Queue(op[t]) = "api"
        /\ Answered1(t) =>
              got[t].type = IF op[t] \in {"Api", "BgApi"}
                            THEN EventApiResponse ELSE EventCommandReply

\* C4, amended: SendRecv, SendEvent, Execute and BgApi are completed only by
\* Command-Reply frames, Api only by Api-Response frames, and the read loop
\* hands to a queue nothing but the frames of that queue's kind.
C4_QueueKinds ==
    /\ \A t \in Tasks :
          Answered1(t) =>
              got[t].type = IF op[t] = "Api"
                            THEN EventApiResponse ELSE EventCommandReply
    /\ loopPc = "send" => loopEv.type \in {EventCommandReply, EventApiResponse}

\* C4's case: a BgApi call completed by a Command-Reply while an Api call
\* was completed by an Api-Response.
C4_Witness ==
    \E t, u \in Tasks :
        /\ Answered1(t) /\ op[t] = "BgApi" /\ got[t].type = EventCommandReply
        /\ Answered1(u) /\ op[u] = "Api" /\ got[u].type = EventApiResponse

\* C5: HandleEvents, meeting end-of-stream or a decode failure while
\* connected, closes the connection and returns a failure; it returns nil
\* only on end-of-stream met while not connected.
C5_LoopExit ==
    loopPc = "returned" =>
        /\ (exit.cause \in {"eof", "decode"} /\ exit.connected) =>
              (loopRet = "err" /\ ~Connected /\ onClose >= 1 /\ sock = "closed")
        /\ loopRet = "nil" => (exit.cause = "eof" /\ ~exit.connected)

\* C6: after a frame of Error classification the loop has stopped with a
\* failure and the connection is closed: Connected false, close hook
\* called, socket released.
C6_ErrorFrameCloses ==
    (loopPc = "returned" /\ exit.cause = "invalid") =>
        (loopRet = "err" /\ ~Connected /\ onClose >= 1 /\ sock = "closed")

\* C7: when Authenticate's first frame fails to decode or is no
\* Auth-Request, Authenticate returns an error with the transport closed,
\* no password written and the connection not marked connected.
C7_PreambleAborts ==
    (phase \in {"failed", "refused", "panic"} /\ sock # "nil" /\ hs = <<>>) =>
        (phase # "panic" /\ setupErr # "nil" /\ sock = "closed" /\ ~Connected)

\* C8: Connected is true only after Authenticate decoded an Auth-Request,
\* wrote the auth command and decoded a Command-Reply, in that order; every
\* other outcome of set-up on a dialed socket leaves Connected false and the
\* socket released.
C8_ConnectedOnlyByHandshake ==
    /\ Connected => hs = <<"Auth-Request", "auth", "Command-Reply">>
    /\ phase \in {"dial", "auth1", "authWrite", "auth2"} => ~Connected
    /\ (phase \in {"failed", "refused", "panic"} /\ sock # "nil") =>
          (~Connected /\ sock = "closed")

\* C8's case: the handshake completed and the connection is marked.
C8_Witness == Connected /\ phase = "ready" /\ Len(hs) = 3

\* C9: ConnectRetry dials at most MaxRetries times, returns the wrapped last
\* dial error after exactly MaxRetries failed attempts, and goes on to
\* Authenticate only with a dialed socket, for every budget from 0 up.
C9_RetryBudget ==
    /\ dials <= MaxRetries
    /\ (phase # "dial" /\ sock = "nil") =>
          (phase = "failed" /\ setupErr = "last dial attempt" /\ dials = MaxRetries)

\* C10 as stated: OnConnect is launched once for an authenticated
\* connection, never for a failed one, and has started before the read loop
\* decodes its first frame.
C10_StartedBeforeFrames ==
    /\ onConnect.launched = (IF phase = "ready" THEN 1 ELSE 0)
    /\ frames > 0 => onConnect.started

\* C10, amended: the OnConnect goroutine is launched exactly once when
\* NewConnection returns an authenticated connection and never for a failed
\* attempt; it is launched before HandleEvents can be called and starts only
\* after its launch.
C10_LaunchedOnce ==
    /\ onConnect.launched = (IF phase = "ready" THEN 1 ELSE 0)
    /\ loopPc # "idle" => onConnect.launched = 1
    /\ onConnect.started => onConnect.launched = 1

\* C10's case: the read loop has decoded a frame while the launched
\* OnConnect goroutine has yet to start.
C10_Witness == onConnect.launched = 1 /\ ~onConnect.started /\ frames > 0

\* HandleEvents has been called and has not returned.
LoopRunning == loopPc \notin {"idle", "returned"}

\* C11: once a task's Close has returned while HandleEvents is running,
\* HandleEvents eventually returns, wherever the loop stood: reading the
\* socket, between frames or handing a reply to a correlation queue.
C11_CloseEndsLoop ==
    \A t \in Tasks :
        (op[t] = "Close" /\ pc[t] = "ret" /\ LoopRunning) ~> (loopPc = "returned")

\* C12: a call blocked on a correlation queue leaves it only by receiving the
\* frame the read loop hands to that queue; no step of Close, nor any other
\* step, unblocks it, so a call still blocked when the loop has returned
\* stays blocked for ever.
C12_CloseUnblocksNothing ==
    [][ \A t \in Tasks :
          (pc[t] = "wait" /\ pc'[t] # "wait") =>
              /\ loopPc = "send"
              /\ Queue(op[t]) = RouteQueue(loopEv.type)
              /\ got'[t] = loopEv
              /\ loopPc' = "top" ]_vars

\* C12's case: a request that reached the peer is still blocked after another
\* task's Close has returned and the read loop has ended.
C12_Witness ==
    \E t, u \in Tasks :
        /\ pc[t] = "wait"
        /\ \E i \in 1..Len(pend[AnswerKind(op[t])]) :
               pend[AnswerKind(op[t])][i] = req[t]
        /\ op[u] = "Close" /\ pc[u] = "ret"
        /\ ~Connected /\ sock = "closed"
        /\ loopPc = "returned"

\* C13: the step of the read loop that dispatches a notification launches
\* OnEvent and leaves the loop ready for the next frame, with no task's call
\* disturbed; the loop never waits for a handler.
C13_DispatchNeverBlocks ==
    [][ onEvent' # onEvent =>
          /\ onEvent' = onEvent + 1
          /\ loopPc = "read" /\ loopPc' = "top"
          /\ \A t \in Tasks : pc[t] # "off" => pc'[t] = pc[t]
          /\ UNCHANGED <<Connected, sock, onClose>> ]_vars

\* C13's case: a handler launched for a notification issued a request and
\* received the reply to it, which the loop decoded after the notification.
C13_Witness ==
    \E h \in Handlers :
        /\ Answered1(h) /\ req[h] # 0 /\ got[h].rid = req[h]
        /\ onEvent >= 1 /\ frames >= 2
        /\ LoopRunning

\* C14: the step of the read loop that serves a Disconnect frame calls
\* OnDisconnect once and changes nothing else: Connected, the close hook,
\* the socket, both queues and every waiting call are as before, and the
\* loop goes on with the next frame.
C14_DisconnectOnlyHook ==
    [][ onDisconnect' # onDisconnect =>
          /\ onDisconnect' = onDisconnect + 1
          /\ loopPc = "read" /\ loopPc' = "top"
          /\ frames' = frames + 1
          /\ UNCHANGED <<Connected, onClose, sock, werr, onEvent, loopEv,
                         loopRet, exit, pc, op, req, got, res, pend>> ]_vars

\* C14's case: two Disconnect frames were served one after the other on a
\* connection that is still open, and the loop is reading the next frame.
C14_Witness ==
    /\ onDisconnect = 2 /\ frames = 2
    /\ Connected /\ sock = "open" /\ onClose = 0
    /\ loopPc = "read"

\* s is made of white space only.
Blank(s) == \A i \in 1..Len(s) : IsSpace(s[i])

\* e is s without its leading and trailing white space.
Stripped(s, e) ==
    /\ e # <<>> => (~IsSpace(e[1]) /\ ~IsSpace(e[Len(e)]))
    /\ \E i \in 0..Len(s) :
          /\ i + Len(e) <= Len(s)
          /\ SubSeq(s, i + 1, i + Len(e)) = e
          /\ Blank(SubSeq(s, 1, i))
          /\ Blank(SubSeq(s, i + Len(e) + 1, Len(s)))

\* C15 as stated: an Api call that received an Api-Response fails, with the
\* trimmed body as its error, when the raw body begins with -ERR, and else
\* returns the raw body verbatim with no error.
C15_RawBodyMarker ==
    \A t \in Tasks :
        (Answered1(t) /\ op[t] = "Api") =>
            IF HasPrefix(got[t].body, ErrMarker)
            THEN /\ res[t] = "fail"
                 /\ Stripped(got[t].body, ApiReturn(got[t]).err)
            ELSE /\ res[t] = "ok"
                 /\ ApiReturn(got[t]) = [value |-> got[t].body, err |-> <<>>]

\* C15, amended: the call fails, with the trimmed body as its error, when the
\* body begins with -ERR once its leading white space is removed, and else
\* returns the raw body verbatim, untrimmed, with no error.
C15_TrimmedBodyMarker ==
    \A t \in Tasks :
        (Answered1(t) /\ op[t] = "Api") =>
            LET body == got[t].body
                ret == ApiReturn(got[t])
                marked == \E i \in 0..Len(body) :
                             /\ Blank(SubSeq(body, 1, i))
                             /\ HasPrefix(SubSeq(body, i + 1, Len(body)), ErrMarker)
            IN IF marked
               THEN /\ res[t] = "fail"
                    /\ ret.value = <<>>
                    /\ ret.err # <<>> /\ Stripped(body, ret.err)
               ELSE /\ res[t] = "ok"
                    /\ ret = [value |-> body, err |-> <<>>]

\* C15's case: an Api call failed on a body that carries the marker after
\* leading white space, and another returned an untrimmed body.
C15_Witness ==
    \E t, u \in Tasks :
        /\ Answered1(t) /\ op[t] = "Api" /\ res[t] = "fail"
        /\ IsSpace(got[t].body[1])
        /\ Answered1(u) /\ op[u] = "Api" /\ res[u] = "ok"
        /\ IsSpace(got[u].body[Len(got[u].body)])
        /\ ApiReturn(got[u]).value = got[u].body

\* The classification the claim gives a Content-Type.
TagOf(ct) ==
    CASE ct = "auth/request" -> EventAuth
      [] ct = "command/reply" -> EventCommandReply
      [] ct = "text/event-plain" -> EventGeneric
      [] ct \in {"text/disconnect-notice", "text/rude-rejection"} -> EventDisconnect
      [] ct = "api/response" -> EventApiResponse
      [] OTHER -> EventError

\* C16: for every frame whose header block and body were read, the event the
\* decoder returns carries the tag its Content-Type alone determines; a
\* command/reply without +OK or %2BOK in Reply-Text gives a failure and no
\* event, text/event-json and text/event-xml give the unsupported-format
\* failure, and every other Content-Type gives the Error tag with no failure.
C16_ClassifiedByContentType ==
    LET f == decode.in
        d == decode.out
        marked == Contains(f.reply, OkPlain) \/ Contains(f.reply, OkEscaped)
    IN (d # Pending /\ f.hdr = "ok" /\ f.clen \in {"none", "ok"}) =>
         /\ ~d.nil => d.type = TagOf(f.ct)
         /\ d.nil <=> (f.ct = "command/reply" /\ ~marked)
         /\ d.nil => d.err = "command error"
         /\ f.ct \in {"text/event-json", "text/event-xml"} <=> d.err = "unsupported format"
         /\ f.ct \in {"auth/request", "text/disconnect-notice", "text/rude-rejection",
                       "api/response"} => d.err = "nil"
         /\ (f.ct = "command/reply" /\ marked) => d.err = "nil"
         /\ TagOf(f.ct) = EventError => (d.err = "nil" <=> f.ct \notin {"text/event-json", "text/event-xml"})

\* C16's case: the decoder has classified a text/rude-rejection frame as a
\* Disconnect.
C16_Witness ==
    /\ decode.in.ct = "text/rude-rejection"
    /\ decode.out # Pending
    /\ ~decode.out.nil /\ decode.out.err = "nil" /\ decode.out.type = EventDisconnect

\* C17: Serialize returns exactly the target line, the execute line, the
\* application-name line, the application-argument line and the event-lock
\* line (true exactly when Sync is set) followed by one blank line, and
\* reading these bytes back gives the Command's target, application,
\* argument and lock flag, for every Command.
C17_SerializeRoundTrip ==
    serial.done =>
        LET cmd == serial.in IN
        /\ Lines(serial.out) =
              << <<"sendmsg ">> \o cmd.UId,
                 <<"call-command: ", "execute">>,
                 <<"execute-app-name: ">> \o cmd.App,
                 <<"execute-app-arg: ">> \o cmd.Args,
                 <<"event-lock: ", IF cmd.Sync THEN "true" ELSE "false">>,
                 <<>> >>
        /\ ParseCommand(serial.out) = cmd

\* Task t is blocked on the queue the loop's event is for.
Waiter(t) == pc[t] = "wait" /\ Queue(op[t]) = RouteQueue(loopEv.type)

\* C18: while the read loop holds a Command-Reply or Api-Response it decodes
\* no frame and calls no hook; the frame leaves the loop only by passing,
\* unchanged, to a call blocked on its queue, and no call on the other queue
\* receives anything meanwhile.
C18_HandOffRendezvous ==
    [][ loopPc = "send" =>
          /\ UNCHANGED <<frames, onEvent, onDisconnect, loopRet>>
          /\ loopPc' \in {"send", "top"}
          /\ loopPc' = "send" => (loopEv' = loopEv /\ \A t \in Tasks : pc[t] = "wait" => pc'[t] = "wait")
          /\ loopPc' = "top" =>
                \E t \in Tasks :
                    /\ Waiter(t)
                    /\ got'[t] = loopEv /\ pc'[t] = "ret"
                    /\ \A u \in Tasks \ {t} : pc[u] = "wait" => (pc'[u] = "wait" /\ got'[u] = got[u]) ]_vars

\* C18's case: the loop holds a reply nobody waits for, while a call is
\* blocked on the other queue and the peer has more to send.
C18_Witness ==
    /\ loopPc = "send"
    /\ \A t \in Tasks : ~Waiter(t)
    /\ \E u \in Tasks :
          /\ pc[u] = "wait"
          /\ pend[AnswerKind(op[u])] # <<>>
          /\ req[u] = Head(pend[AnswerKind(op[u])])
    /\ peer = "up" /\ frames < MaxFrames

\* C19: a call goes on to block on its queue only when its request was
\* written and flushed to the socket; when the write or the flush failed the
\* call returns a write failure.
C19_WriteFailureReturns ==
    [][ \A t \in Tasks :
          (Free(t) /\ pc'[t] = "wait") =>
              (sock = "open" /\ peer # "reset" /\ ~werr /\ ~werr') ]_vars

\* C20: a text/event-plain frame whose body is a well-formed header block,
\* with or without the timestamp, is served by one OnEvent and leaves the
\* connection open: the read loop never takes such a frame for a decode
\* failure, closing the connection and returning in place of the dispatch.
C20_EventPlainDispatched ==
    ~(exit.cause = "decode" /\ exit.atoi /\ exit.connected)
====
